---- MODULE Spec2Model ----
(***************************************************************************)
(* Lifecycle orchestration of lps-ufrj-br/datacenter: the Cluster facade   *)
(* (datacenter/proxmox/cluster.py) and the VM facade                       *)
(* (datacenter/proxmox/vm.py), both built on Playbook (datacenter.ansible).*)
(*                                                                         *)
(* One process constructs one facade and invokes one of its public         *)
(* operations.  Everything the operation does that the outside can see is  *)
(* appended to `trace`: lines printed, calls into the Executor Gateway     *)
(* (Playbook.run_shell, Playbook.run, Playbook.ping_hosts) and settle      *)
(* waits (time.sleep).  The Gateway's answer to a call is the environment's*)
(* choice.                                                                 *)
(***************************************************************************)
EXTENDS Naturals, Sequences, FiniteSets

VARIABLES
    facade,          \* "cluster" or "vm": the class that was constructed
    dry_run,         \* Playbook.dry_run of the constructed facade
    cluster_config,  \* self.cluster_config, as returned by get_cluster_config()
    arg_dry_run,     \* the dry_run argument the constructor was called with
    snapname,        \* the argument of VM.create
    op,              \* the public operation invoked, "none" before the call
    pc,              \* the position inside the operation
    ok,              \* the local variable `ok` of create() / the last step result
    ret,             \* what the operation returned: "unset", "True", "False", "None", "KeyError"
    trace            \* the observable events so far, oldest first

vars == <<facade, dry_run, arg_dry_run, cluster_config, snapname, op, pc, ok, ret, trace>>

----------------------------------------------------------------------------
(* Identities and timings *)

cluster_name == "c1"
vm_name == "v1"

SettleAfterReboot == 30
SettleAfterCreateCluster == 10
SettleAfterCreateNodes == 5
SettleAfterRestore == 40

(* The configuration store: the attributes of cluster c1 and of VM v1, and *)
(* the image table.  A key may be absent; looking it up then raises.       *)
ClusterAttrs == [host |-> "node01", ip_address |-> "10.0.0.1"]

PciDevices == {"", "0000:01:00.0"}
VmAttrs(device) ==
    [host |-> "node02", vmid |-> "100", image |-> "base-image", sockets |-> "1",
     cores |-> "4", memory_mb |-> "8192", storage |-> "storage01",
     vm_name |-> "v1-guest", ip_address |-> "10.0.0.50", pci |-> device]

Images == [hostname |-> "init-host", paths |-> [k \in {"base-image"} |-> "/mnt/images/base.vma"]]

Storages == [k \in {"storage01"} |-> [server |-> "10.0.0.9", path |-> "/export/images"]]

Without(f, keys) == [k \in (DOMAIN f) \ keys |-> f[k]]

(* Keys whose absence is explored. *)
AbsentChoices == {{}, {"host"}, {"ip_address"}, {"pci"}, {"vmid"}}

Configs ==
    { [cluster |-> Without(ClusterAttrs, a), vm |-> Without(VmAttrs(d), a),
       images |-> Images, storage |-> Storages] : a \in AbsentChoices, d \in PciDevices }

SnapNames == {"base", "nightly"}

----------------------------------------------------------------------------
(* Results of method calls: the value returned (or the exception raised)   *)
(* and the trace after the call.                                           *)

BoolStr(b) == IF b THEN "True" ELSE "False"

Result(value, tr) == [ret |-> value, tr |-> tr]

Raise(tr) == Result("KeyError", tr)

(* print(...): `step` is N for a line tagged "[step N]", 0 for an untagged *)
(* line; `diag` tells a failure diagnostic from a narration.               *)
print(tr, step, diag, text) ==
    Append(tr, [kind |-> "print", step |-> step, diag |-> diag, text |-> text])

sleep(tr, n) == Append(tr, [kind |-> "sleep", n |-> n])

(* Command(label) and `command += instruction` of datacenter.ansible. *)
Command(label) == [label |-> label, instrs |-> <<>>]

Add(command, instruction) == [command EXCEPT !.instrs = Append(@, instruction)]

(* Playbook: in dry-run mode a call is only displayed; otherwise it is     *)
(* executed remotely and `r` is the outcome of that execution.             *)
Gateway(tr, api, target, name, instrs, r) ==
    Result(BoolStr(dry_run \/ r),
           Append(tr, [kind |-> "gateway", api |-> api,
                       path |-> IF dry_run THEN "display" ELSE "execute",
                       target |-> target, name |-> name, instrs |-> instrs,
                       result |-> BoolStr(dry_run \/ r)]))

run_shell(tr, target, command, r) ==
    Gateway(tr, "run_shell", target, command.label, command.instrs, r)

run(tr, script_name, target, params, r) ==
    Gateway(tr, "run", target, script_name, params, r)

ping_hosts(tr, target, r) ==
    Gateway(tr, "ping_hosts", target, "ping", <<>>, r)

----------------------------------------------------------------------------
(* class Cluster *)

(* Mutant: the constructor does not hand dry_run on to Playbook. *)
Cluster_init_IgnoresDryRun(name, dry, cfg) ==
    [cluster_name |-> name, dry_run |-> FALSE, cluster_config |-> cfg]

Cluster_init(name, dry, cfg) == [cluster_name |-> name, dry_run |-> dry, cluster_config |-> cfg]

HasCluster(key) == key \in DOMAIN cluster_config.cluster

cluster(key) == cluster_config.cluster[key]

Cluster_ping(tr, r) ==
    Result("None", ping_hosts(tr, cluster_name, r).tr)

run_shell_on_all(tr, command, r) == run_shell(tr, cluster_name, command, r)

run_script_on_all(tr, script_name, params, r) == run(tr, script_name, cluster_name, params, r)

(* Mutant: the command for the master host goes to the whole group. *)
run_shell_on_master_host_ToAll(tr, command, r) ==
    IF ~HasCluster("host") THEN Raise(tr)
    ELSE run_shell(tr, cluster_name, command, r)

run_shell_on_master_host(tr, command, r) ==
    IF ~HasCluster("host") THEN Raise(tr)
    ELSE run_shell(tr, cluster("host"), command, r)

Cluster_reset(tr, r) ==
    LET tr1 == print(tr, 0, FALSE, "reset the cluster")
        command == Add(Add(Add(Add(Add(Add(Add(Command("reset nodes..."),
                       <<"systemctl stop pve-cluster corosync">>),
                       <<"pmxcfs -l">>),
                       <<"rm -rf /etc/corosync/*">>),
                       <<"rm -rf /etc/pve/corosync.conf">>),
                       <<"killall pmxcfs">>),
                       <<"systemctl start pve-cluster">>),
                       <<"rm -rf /etc/pve/nodes/*">>)
    IN  run_shell_on_all(tr1, command, r)

Cluster_reboot(tr, r) == run_script_on_all(tr, "reboot.yaml", <<>>, r)

Cluster_create_cluster(tr, r) ==
    IF ~HasCluster("host") THEN Raise(tr)
    ELSE LET tr1 == print(tr, 0, FALSE, "create cluster into the host")
             command == Add(Command("create cluster..."),
                            <<"pvecm create", cluster_name, "--votes 1">>)
         IN  run_shell_on_master_host(tr1, command, r)

Cluster_create_nodes(tr, r) ==
    LET tr1 == print(tr, 0, FALSE, "add nodes into the cluster")
    IN  IF ~HasCluster("ip_address") THEN Raise(tr1)
        ELSE LET params == <<<<"ip_address", cluster("ip_address")>>,
                             <<"master_key", "master-key">>>>
             IN  run_script_on_all(tr1, "add_node.yaml", params, r)

Cluster_create_storage(tr, storage, r) ==
    LET tr1 == print(tr, 0, FALSE, "add storage")
        command == Add(Command("add storages..."),
                       <<"pvesm add nfs", storage.name, "--server", storage.server,
                         "--export", storage.path, "--content iso,backup,images">>)
    IN  run_shell_on_master_host(tr1, command, r)

(* Mutant: the reboot does not depend on the script's result. *)
Cluster_configure_nodes_AlwaysReboot(tr, r1, r2) ==
    LET command == Add(Command("configure nodes..."),
                       <<"wget", "configure_node.py", "&& python3", "configure_node.py">>)
        script == run_shell_on_all(tr, command, r1)
    IN  Cluster_reboot(script.tr, r2)

(* Mutant: the result of the final reboot is dropped. *)
Cluster_configure_nodes_IgnoresReboot(tr, r1, r2) ==
    LET command == Add(Command("configure nodes..."),
                       <<"wget", "configure_node.py", "&& python3", "configure_node.py">>)
        script == run_shell_on_all(tr, command, r1)
    IN  IF script.ret # "True"
        THEN Result("False", print(script.tr, 0, TRUE, "it is not possible to configure nodes..."))
        ELSE Result("True", Cluster_reboot(script.tr, r2).tr)

(* r1 answers the configuration script, r2 the reboot that follows it. *)
Cluster_configure_nodes(tr, r1, r2) ==
    LET command == Add(Command("configure nodes..."),
                       <<"wget", "configure_node.py", "&& python3", "configure_node.py">>)
        script == run_shell_on_all(tr, command, r1)
    IN  IF script.ret # "True"
        THEN Result("False", print(script.tr, 0, TRUE, "it is not possible to configure nodes..."))
        ELSE Cluster_reboot(script.tr, r2)

----------------------------------------------------------------------------
(* class VM *)

VM_init(name, dry, cfg) ==
    [vm_name |-> name, dry_run |-> dry, cluster_config |-> cfg,
     vm_init_name |-> cfg.images.hostname]

vm_init_name == cluster_config.images.hostname

HasVm(keys) == keys \subseteq DOMAIN cluster_config.vm

vm(key) == cluster_config.vm[key]

HasImage == HasVm({"image"}) /\ vm("image") \in DOMAIN cluster_config.images.paths

image == cluster_config.images.paths[vm("image")]

VM_ping(tr, r) ==
    Result("None", ping_hosts(tr, vm_name, r).tr)

run_shell_on_vm(tr, command, r) == run_shell(tr, vm_name, command, r)

(* Mutant: the command for the hypervisor host goes to the VM itself. *)
run_shell_on_host_ToVM(tr, command, r) ==
    IF ~HasVm({"host"}) THEN Raise(tr)
    ELSE run_shell(tr, vm_name, command, r)

run_shell_on_host(tr, command, r) ==
    IF ~HasVm({"host"}) THEN Raise(tr)
    ELSE run_shell(tr, vm("host"), command, r)

VM_restore(tr, r) ==
    IF ~(HasImage /\ HasVm({"vmid", "sockets", "cores", "memory_mb", "storage", "vm_name"}))
    THEN Raise(tr)
    ELSE LET command ==
                 Add(Add(Add(Command("restore vm..."),
                     <<"qmrestore", image, vm("vmid"), "--storage", vm("storage"),
                       "--unique --force">>),
                     <<"qm set", vm("vmid"), "--name", vm("vm_name"), "--sockets",
                       vm("sockets"), "--cores", vm("cores"), "--memory",
                       vm("memory_mb"), "--cpu host">>),
                     <<"qm start", vm("vmid")>>)
         IN  run_shell_on_host(tr, command, r)

VM_snapshot(tr, name, r) ==
    IF ~HasVm({"vmid"}) THEN Raise(tr)
    ELSE LET command == Add(Command("snapshot vm v1..."), <<"qm snapshot", vm("vmid"), name>>)
         IN  run_shell_on_host(tr, command, r)

VM_reboot(tr, r) ==
    IF ~HasVm({"vmid"}) THEN Raise(tr)
    ELSE LET command == Add(Command("reboot vm v1..."),
                            <<"qm stop", vm("vmid"), "&& qm start", vm("vmid")>>)
         IN  run_shell_on_host(tr, command, r)

VM_configure_network(tr, r) ==
    IF ~HasVm({"ip_address"}) THEN Raise(tr)
    ELSE LET command == Add(Command("configure network on vm v1..."),
                            <<"wget", "configure_network.sh", "&& bash",
                              "configure_network.sh", vm_name, vm("ip_address")>>)
             params == <<<<"command", command.instrs>>,
                         <<"ip_address", vm("ip_address")>>,
                         <<"vm_name", vm_name>>>>
         IN  run(tr, "configure_network.yaml", vm_init_name, params, r)

PciInstr(vmid, device) == <<"qm set", vmid, "-hostpci0", device>>

OnBootInstr(vmid) == <<"qm set", vmid, "--onboot 1">>

(* Mutant: the PCI instruction is appended without looking at the device. *)
VM_configure_options_AlwaysPci(tr, r) ==
    IF ~HasVm({"vmid", "pci"}) THEN Raise(tr)
    ELSE LET command == Add(Add(Command("set VM options..."),
                                PciInstr(vm("vmid"), vm("pci"))),
                            OnBootInstr(vm("vmid")))
         IN  run_shell_on_host(tr, command, r)

VM_configure_options(tr, r) ==
    IF ~HasVm({"vmid", "pci"}) THEN Raise(tr)
    ELSE LET vmid == vm("vmid")
             device == vm("pci")
             command0 == Command("set VM options...")
             command1 == IF device # "" THEN Add(command0, PciInstr(vmid, device))
                         ELSE command0
             command == Add(command1, OnBootInstr(vmid))
         IN  run_shell_on_host(tr, command, r)

VM_destroy(tr, r) ==
    IF ~HasVm({"vmid"}) THEN Raise(tr)
    ELSE LET command == Add(Command("destroy vm v1..."),
                            <<"qm stop", vm("vmid"), "&& qm destroy", vm("vmid"),
                              "--destroy-unreferenced-disks">>)
         IN  run_shell_on_host(tr, command, r)

----------------------------------------------------------------------------

Init ==
    /\ facade \in {"cluster", "vm"}
    /\ arg_dry_run \in BOOLEAN
    /\ \E cfg \in Configs :
          LET self == IF facade = "cluster"
                      THEN Cluster_init(cluster_name, arg_dry_run, cfg)
                      ELSE VM_init(vm_name, arg_dry_run, cfg)
          IN  /\ dry_run = self.dry_run
              /\ cluster_config = self.cluster_config
    /\ snapname \in SnapNames
    /\ op = "none"
    /\ pc = "idle"
    /\ ok = "unset"
    /\ ret = "unset"
    /\ trace = <<>>

----------------------------------------------------------------------------
(* A public operation that is one call: the facade is idle, the operation  *)
(* runs to its return (or to the exception it raises).                     *)

Return(name, res) ==
    /\ pc = "idle"
    /\ op' = name
    /\ trace' = res.tr
    /\ ret' = res.ret
    /\ pc' = IF res.ret = "KeyError" THEN "raised" ELSE "done"
    /\ UNCHANGED <<facade, dry_run, arg_dry_run, cluster_config, snapname, ok>>

ClusterPing ==
    facade = "cluster" /\ \E r \in BOOLEAN : Return("ping", Cluster_ping(trace, r))

ClusterReset ==
    facade = "cluster" /\ \E r \in BOOLEAN : Return("reset", Cluster_reset(trace, r))

ClusterReboot ==
    facade = "cluster" /\ \E r \in BOOLEAN : Return("reboot", Cluster_reboot(trace, r))

ClusterCreateCluster ==
    facade = "cluster" /\ \E r \in BOOLEAN :
        Return("create_cluster", Cluster_create_cluster(trace, r))

ClusterCreateNodes ==
    facade = "cluster" /\ \E r \in BOOLEAN :
        Return("create_nodes", Cluster_create_nodes(trace, r))

ClusterCreateStorage ==
    facade = "cluster" /\ \E r \in BOOLEAN, n \in DOMAIN cluster_config.storage :
        LET d == cluster_config.storage[n]
            storage == [name |-> n, server |-> d.server, path |-> d.path]
        IN  Return("create_storage", Cluster_create_storage(trace, storage, r))

ClusterConfigureNodes ==
    facade = "cluster" /\ \E r1 \in BOOLEAN, r2 \in BOOLEAN :
        Return("configure_nodes", Cluster_configure_nodes(trace, r1, r2))

VMPing ==
    facade = "vm" /\ \E r \in BOOLEAN : Return("ping", VM_ping(trace, r))

VMRestore ==
    facade = "vm" /\ \E r \in BOOLEAN : Return("restore", VM_restore(trace, r))

VMSnapshot ==
    facade = "vm" /\ \E r \in BOOLEAN, name \in SnapNames :
        Return("snapshot", VM_snapshot(trace, name, r))

VMReboot ==
    facade = "vm" /\ \E r \in BOOLEAN : Return("reboot", VM_reboot(trace, r))

VMConfigureNetwork ==
    facade = "vm" /\ \E r \in BOOLEAN :
        Return("configure_network", VM_configure_network(trace, r))

VMConfigureOptions ==
    facade = "vm" /\ \E r \in BOOLEAN :
        Return("configure_options", VM_configure_options(trace, r))

VMDestroy ==
    facade = "vm" /\ \E r \in BOOLEAN : Return("destroy", VM_destroy(trace, r))

----------------------------------------------------------------------------
(* Cluster.destroy: two statements, neither result is looked at, and the   *)
(* method falls off its end.                                               *)

(* Mutant: destroy stops when reset fails. *)
ClusterDestroyReset_ShortCircuit ==
    /\ facade = "cluster" /\ pc = "idle"
    /\ \E r \in BOOLEAN :
          LET res == Cluster_reset(trace, r)
          IN  /\ trace' = res.tr
              /\ pc' = IF res.ret = "True" THEN "destroy_reboot" ELSE "done"
              /\ ret' = IF res.ret = "True" THEN ret ELSE "False"
    /\ op' = "destroy"
    /\ UNCHANGED <<facade, dry_run, arg_dry_run, cluster_config, snapname, ok>>

ClusterDestroyReset ==
    /\ facade = "cluster" /\ pc = "idle"
    /\ \E r \in BOOLEAN :
          LET res == Cluster_reset(trace, r)
          IN  /\ trace' = res.tr
              /\ pc' = IF res.ret = "KeyError" THEN "raised" ELSE "destroy_reboot"
              /\ ret' = IF res.ret = "KeyError" THEN "KeyError" ELSE ret
    /\ op' = "destroy"
    /\ UNCHANGED <<facade, dry_run, arg_dry_run, cluster_config, snapname, ok>>

ClusterDestroyReboot ==
    /\ facade = "cluster" /\ op = "destroy" /\ pc = "destroy_reboot"
    /\ \E r \in BOOLEAN :
          LET res == Cluster_reboot(trace, r)
          IN  /\ trace' = res.tr
              /\ pc' = IF res.ret = "KeyError" THEN "raised" ELSE "done"
              /\ ret' = IF res.ret = "KeyError" THEN "KeyError" ELSE "None"
    /\ UNCHANGED <<facade, dry_run, arg_dry_run, cluster_config, snapname, op, ok>>

----------------------------------------------------------------------------
(* Cluster.create *)

(* Mutant: the failure is printed but create() goes on to the next step. *)
CheckStep_NoReturn(res, k, text, next) ==
    IF res.ret = "KeyError"
    THEN /\ trace' = res.tr
         /\ ok' = ok
         /\ ret' = "KeyError"
         /\ pc' = "raised"
    ELSE /\ trace' = IF res.ret # "True" THEN print(res.tr, k, TRUE, text) ELSE res.tr
         /\ ok' = res.ret
         /\ ret' = ret
         /\ pc' = next

(* Mutant: create() returns False without printing the step's diagnostic. *)
CheckStep_Silent(res, k, text, next) ==
    IF res.ret = "KeyError"
    THEN /\ trace' = res.tr
         /\ ok' = ok
         /\ ret' = "KeyError"
         /\ pc' = "raised"
    ELSE /\ trace' = res.tr
         /\ ok' = res.ret
         /\ ret' = IF res.ret # "True" THEN "False" ELSE ret
         /\ pc' = IF res.ret # "True" THEN "done" ELSE next

(* Mutant: a failed step is attempted again. *)
CheckStep_Retry(res, k, text, next) ==
    IF res.ret = "KeyError"
    THEN /\ trace' = res.tr
         /\ ok' = ok
         /\ ret' = "KeyError"
         /\ pc' = "raised"
    ELSE /\ trace' = IF res.ret # "True" THEN print(res.tr, k, TRUE, text) ELSE res.tr
         /\ ok' = res.ret
         /\ ret' = ret
         /\ pc' = IF res.ret # "True" THEN pc ELSE next

(* `ok = self.step(); if not ok: print("[step k] ..."); return False`      *)
CheckStep(res, k, text, next) ==
    IF res.ret = "KeyError"
    THEN /\ trace' = res.tr
         /\ ok' = ok
         /\ ret' = "KeyError"
         /\ pc' = "raised"
    ELSE IF res.ret # "True"
    THEN /\ trace' = print(res.tr, k, TRUE, text)
         /\ ok' = res.ret
         /\ ret' = "False"
         /\ pc' = "done"
    ELSE /\ trace' = res.tr
         /\ ok' = res.ret
         /\ ret' = ret
         /\ pc' = next

Settle(at, n, next) ==
    /\ pc = at
    /\ trace' = sleep(trace, n)
    /\ pc' = next
    /\ UNCHANGED <<facade, dry_run, arg_dry_run, cluster_config, snapname, op, ok, ret>>

ClusterCreateStep1 ==
    /\ facade = "cluster" /\ pc = "idle"
    /\ op' = "create"
    /\ \E r \in BOOLEAN :
          CheckStep(Cluster_reset(print(trace, 1, FALSE, "resetting all nodes"), r),
                    1, "it is not possible to reset all nodes", "create_step2")
    /\ UNCHANGED <<facade, dry_run, arg_dry_run, cluster_config, snapname>>

ClusterCreateStep2 ==
    /\ facade = "cluster" /\ op = "create" /\ pc = "create_step2"
    /\ \E r \in BOOLEAN :
          CheckStep(Cluster_reboot(print(trace, 2, FALSE, "reboot all nodes"), r),
                    2, "it is not possible to reboot all nodes", "create_sleep30")
    /\ UNCHANGED <<facade, dry_run, arg_dry_run, cluster_config, snapname, op>>

(* Mutant: create_cluster is attempted without waiting for the reboot. *)
ClusterCreateSleep30_Skipped ==
    /\ facade = "cluster" /\ op = "create" /\ pc = "create_sleep30"
    /\ pc' = "create_step3"
    /\ UNCHANGED <<facade, dry_run, arg_dry_run, cluster_config, snapname, op, ok, ret, trace>>

ClusterCreateSleep30 ==
    facade = "cluster" /\ op = "create" /\ Settle("create_sleep30", SettleAfterReboot, "create_step3")

(* Mutant: the 10-unit wait comes before the check of create_cluster's result. *)
ClusterCreateStep3_SettleFirst ==
    /\ facade = "cluster" /\ op = "create" /\ pc = "create_step3"
    /\ \E r \in BOOLEAN :
          LET res == Cluster_create_cluster(print(trace, 3, FALSE, "create the cluster"), r)
              waited == IF res.ret = "KeyError" THEN res
                        ELSE Result(res.ret, sleep(res.tr, SettleAfterCreateCluster))
          IN  CheckStep(waited, 3, "it is not possible to create the cluster", "create_step4")
    /\ UNCHANGED <<facade, dry_run, arg_dry_run, cluster_config, snapname, op>>

ClusterCreateStep3 ==
    /\ facade = "cluster" /\ op = "create" /\ pc = "create_step3"
    /\ \E r \in BOOLEAN :
          CheckStep(Cluster_create_cluster(print(trace, 3, FALSE, "create the cluster"), r),
                    3, "it is not possible to create the cluster", "create_sleep10")
    /\ UNCHANGED <<facade, dry_run, arg_dry_run, cluster_config, snapname, op>>

(* Mutant: the wait is left out when nothing is executed. *)
ClusterCreateSleep10_NotInDryRun ==
    /\ facade = "cluster" /\ op = "create" /\ pc = "create_sleep10"
    /\ trace' = IF dry_run THEN trace ELSE sleep(trace, SettleAfterCreateCluster)
    /\ pc' = "create_step4"
    /\ UNCHANGED <<facade, dry_run, arg_dry_run, cluster_config, snapname, op, ok, ret>>

ClusterCreateSleep10 ==
    facade = "cluster" /\ op = "create"
        /\ Settle("create_sleep10", SettleAfterCreateCluster, "create_step4")

ClusterCreateStep4 ==
    /\ facade = "cluster" /\ op = "create" /\ pc = "create_step4"
    /\ \E r \in BOOLEAN :
          CheckStep(Cluster_create_nodes(print(trace, 4, FALSE, "add nodes"), r),
                    4, "it is not possible to add nodes", "create_sleep5")
    /\ UNCHANGED <<facade, dry_run, arg_dry_run, cluster_config, snapname, op>>

(* Mutant: the wait before step 5 is left out. *)
ClusterCreateSleep5_Skipped ==
    /\ facade = "cluster" /\ op = "create" /\ pc = "create_sleep5"
    /\ pc' = "create_step5"
    /\ UNCHANGED <<facade, dry_run, arg_dry_run, cluster_config, snapname, op, ok, ret, trace>>

ClusterCreateSleep5 ==
    facade = "cluster" /\ op = "create"
        /\ Settle("create_sleep5", SettleAfterCreateNodes, "create_step5")

(* Step 5 and the `return True` that follows it. *)
ClusterCreateStep5 ==
    /\ facade = "cluster" /\ op = "create" /\ pc = "create_step5"
    /\ \E r1 \in BOOLEAN, r2 \in BOOLEAN :
          LET res == Cluster_configure_nodes(print(trace, 5, FALSE, "configure all nodes"), r1, r2)
          IN  IF res.ret = "True"
              THEN /\ trace' = res.tr
                   /\ ok' = "True"
                   /\ ret' = "True"
                   /\ pc' = "done"
              ELSE CheckStep(res, 5, "it is not possible to configure all nodes", "done")
    /\ UNCHANGED <<facade, dry_run, arg_dry_run, cluster_config, snapname, op>>

----------------------------------------------------------------------------
(* VM.create *)

(* Mutant: restore's result is checked before the wait. *)
VMCreateRestore_CheckFirst ==
    /\ facade = "vm" /\ pc = "idle"
    /\ op' = "create"
    /\ \E r \in BOOLEAN :
          LET res == VM_restore(print(trace, 0, FALSE, "restore image into the host..."), r)
          IN  /\ trace' = res.tr
              /\ IF res.ret = "KeyError"
                 THEN ok' = ok /\ ret' = "KeyError" /\ pc' = "raised"
                 ELSE IF res.ret # "True"
                 THEN ok' = res.ret /\ ret' = "False" /\ pc' = "done"
                 ELSE ok' = res.ret /\ ret' = ret /\ pc' = "create_sleep40"
    /\ UNCHANGED <<facade, dry_run, arg_dry_run, cluster_config, snapname>>

VMCreateRestore ==
    /\ facade = "vm" /\ pc = "idle"
    /\ op' = "create"
    /\ \E r \in BOOLEAN :
          LET res == VM_restore(print(trace, 0, FALSE, "restore image into the host..."), r)
          IN  /\ trace' = res.tr
              /\ IF res.ret = "KeyError"
                 THEN ok' = ok /\ ret' = "KeyError" /\ pc' = "raised"
                 ELSE ok' = res.ret /\ ret' = ret /\ pc' = "create_sleep40"
    /\ UNCHANGED <<facade, dry_run, arg_dry_run, cluster_config, snapname>>

VMCreateSleep40 ==
    facade = "vm" /\ op = "create"
        /\ Settle("create_sleep40", SettleAfterRestore, "create_check_restore")

VMCreateCheckRestore ==
    /\ facade = "vm" /\ op = "create" /\ pc = "create_check_restore"
    /\ IF ok # "True"
       THEN ret' = "False" /\ pc' = "done"
       ELSE ret' = ret /\ pc' = "create_network"
    /\ UNCHANGED <<facade, dry_run, arg_dry_run, cluster_config, snapname, op, ok, trace>>

(* Mutant: the step's result does not stop create(). *)
CheckQuiet_NoReturn(res, next) ==
    IF res.ret = "KeyError"
    THEN /\ trace' = res.tr
         /\ ok' = ok
         /\ ret' = "KeyError"
         /\ pc' = "raised"
    ELSE /\ trace' = res.tr
         /\ ok' = res.ret
         /\ ret' = ret
         /\ pc' = next

(* `ok = self.step(); if not ok: return False` *)
CheckQuiet(res, next) ==
    IF res.ret = "KeyError"
    THEN /\ trace' = res.tr
         /\ ok' = ok
         /\ ret' = "KeyError"
         /\ pc' = "raised"
    ELSE /\ trace' = res.tr
         /\ ok' = res.ret
         /\ ret' = IF res.ret # "True" THEN "False" ELSE ret
         /\ pc' = IF res.ret # "True" THEN "done" ELSE next

VMCreateNetwork ==
    /\ facade = "vm" /\ op = "create" /\ pc = "create_network"
    /\ \E r \in BOOLEAN :
          CheckQuiet(VM_configure_network(print(trace, 0, FALSE, "configure network"), r),
                     "create_options")
    /\ UNCHANGED <<facade, dry_run, arg_dry_run, cluster_config, snapname, op>>

(* Mutant: the result of configure_options is not looked at. *)
VMCreateOptions_Unchecked ==
    /\ facade = "vm" /\ op = "create" /\ pc = "create_options"
    /\ \E r \in BOOLEAN :
          CheckQuiet_NoReturn(
              VM_configure_options(print(trace, 0, FALSE, "configure options"), r),
              "create_snapshot")
    /\ UNCHANGED <<facade, dry_run, arg_dry_run, cluster_config, snapname, op>>

VMCreateOptions ==
    /\ facade = "vm" /\ op = "create" /\ pc = "create_options"
    /\ \E r \in BOOLEAN :
          CheckQuiet(VM_configure_options(print(trace, 0, FALSE, "configure options"), r),
                     "create_snapshot")
    /\ UNCHANGED <<facade, dry_run, arg_dry_run, cluster_config, snapname, op>>

(* Mutant: a failed snapshot makes create() return failure. *)
VMCreateSnapshot_Gated ==
    /\ facade = "vm" /\ op = "create" /\ pc = "create_snapshot"
    /\ \E r \in BOOLEAN :
          LET res == VM_snapshot(print(trace, 0, FALSE, "take a snapshot..."), snapname, r)
          IN  /\ trace' = res.tr
              /\ ret' = IF res.ret = "KeyError" THEN "KeyError"
                        ELSE IF res.ret # "True" THEN "False" ELSE ret
              /\ pc' = IF res.ret = "KeyError" THEN "raised"
                       ELSE IF res.ret # "True" THEN "done" ELSE "create_reboot"
    /\ UNCHANGED <<facade, dry_run, arg_dry_run, cluster_config, snapname, op, ok>>

(* `self.snapshot(snapname)`: the result is dropped. *)
VMCreateSnapshot ==
    /\ facade = "vm" /\ op = "create" /\ pc = "create_snapshot"
    /\ \E r \in BOOLEAN :
          LET res == VM_snapshot(print(trace, 0, FALSE, "take a snapshot..."), snapname, r)
          IN  /\ trace' = res.tr
              /\ ret' = IF res.ret = "KeyError" THEN "KeyError" ELSE ret
              /\ pc' = IF res.ret = "KeyError" THEN "raised" ELSE "create_reboot"
    /\ UNCHANGED <<facade, dry_run, arg_dry_run, cluster_config, snapname, op, ok>>

(* `self.reboot(); return True` *)
VMCreateReboot ==
    /\ facade = "vm" /\ op = "create" /\ pc = "create_reboot"
    /\ \E r \in BOOLEAN :
          LET res == VM_reboot(trace, r)
          IN  /\ trace' = res.tr
              /\ ret' = IF res.ret = "KeyError" THEN "KeyError" ELSE "True"
              /\ pc' = IF res.ret = "KeyError" THEN "raised" ELSE "done"
    /\ UNCHANGED <<facade, dry_run, arg_dry_run, cluster_config, snapname, op, ok>>

----------------------------------------------------------------------------

Next ==
    \/ ClusterPing
    \/ ClusterReset
    \/ ClusterReboot
    \/ ClusterCreateCluster
    \/ ClusterCreateNodes
    \/ ClusterCreateStorage
    \/ ClusterConfigureNodes
    \/ ClusterDestroyReset
    \/ ClusterDestroyReboot
    \/ ClusterCreateStep1
    \/ ClusterCreateStep2
    \/ ClusterCreateSleep30
    \/ ClusterCreateStep3
    \/ ClusterCreateSleep10
    \/ ClusterCreateStep4
    \/ ClusterCreateSleep5
    \/ ClusterCreateStep5
    \/ VMPing
    \/ VMRestore
    \/ VMSnapshot
    \/ VMReboot
    \/ VMConfigureNetwork
    \/ VMConfigureOptions
    \/ VMDestroy
    \/ VMCreateRestore
    \/ VMCreateSleep40
    \/ VMCreateCheckRestore
    \/ VMCreateNetwork
    \/ VMCreateOptions
    \/ VMCreateSnapshot
    \/ VMCreateReboot

Spec == Init /\ [][Next]_vars

----------------------------------------------------------------------------
(* Reading the trace *)

IsGateway(e) == e.kind = "gateway"

IsSleep(e) == e.kind = "sleep"

IsStepLine(e) == e.kind = "print" /\ e.step > 0

(* The Gateway calls, the settle waits and the "[step N]" lines so far. *)
Dispatches == SelectSeq(trace, IsGateway)

Waits == SelectSeq(trace, IsSleep)

StepLines == SelectSeq(trace, IsStepLine)

Names(g) == [i \in 1..Len(g) |-> g[i].name]

Durations(w) == [i \in 1..Len(w) |-> w[i].n]

Tags(l) == [i \in 1..Len(l) |-> l[i].step]

IsPrefix(s, t) == Len(s) <= Len(t) /\ \A i \in 1..Len(s) : s[i] = t[i]

RECURSIVE Sum(_)
Sum(s) == IF s = <<>> THEN 0 ELSE s[1] + Sum(Tail(s))

ClusterCreateOrder ==
    <<"reset nodes...", "reboot.yaml", "create cluster...", "add_node.yaml",
      "configure nodes...", "reboot.yaml">>

VMCreateOrder ==
    <<"restore vm...", "configure_network.yaml", "set VM options...",
      "snapshot vm v1...", "reboot vm v1...">>

InClusterCreate == facade = "cluster" /\ op = "create"

InVMCreate == facade = "vm" /\ op = "create"

----------------------------------------------------------------------------
(* C1: Cluster.create() dispatches reset, reboot, create_cluster,          *)
(* create_nodes, configure_nodes in that order, and when step k (1..4)     *)
(* returns failure nothing is dispatched after it: no later step and no    *)
(* compensating reset, reboot or destroy.                                  *)
C1_ClusterCreateFailFast ==
    InClusterCreate =>
        LET g == Dispatches
        IN  /\ IsPrefix(Names(g), ClusterCreateOrder)
            /\ \A k \in 1..4 : (Len(g) >= k /\ g[k].result = "False") => Len(g) = k

C1_Witness ==
    /\ InClusterCreate /\ pc = "done"
    /\ Len(Dispatches) = 3 /\ Dispatches[3].result = "False"

(* C2: VM.create() dispatches restore, configure_network,                  *)
(* configure_options, snapshot, reboot in that order; configure_network    *)
(* only after restore succeeded, configure_options only after              *)
(* configure_network succeeded, snapshot and reboot only after             *)
(* configure_options succeeded.                                            *)
C2_VMCreateOrder ==
    InVMCreate =>
        LET g == Dispatches
        IN  /\ IsPrefix(Names(g), VMCreateOrder)
            /\ \A k \in 1..3 : Len(g) > k => g[k].result = "True"

C2_Witness ==
    /\ InVMCreate /\ pc = "done"
    /\ Len(Dispatches) = 5 /\ Dispatches[4].result = "False"

CreateClusterFailed ==
    /\ InClusterCreate /\ pc = "done"
    /\ Len(Dispatches) >= 3
    /\ Dispatches[1].result = "True"
    /\ Dispatches[2].result = "True"
    /\ Dispatches[3].result = "False"

(* C3 as stated: when reset and reboot succeed and create_cluster fails,   *)
(* create() returns failure after exactly 2 settle waits (30 and 10) and   *)
(* steps 4 and 5 are never attempted.                                      *)
C3_TwoWaitsBeforeFailure ==
    CreateClusterFailed =>
        /\ ret = "False"
        /\ Durations(Waits) = <<30, 10>>
        /\ Len(Dispatches) = 3

(* C3 amended: when reset and reboot succeed and create_cluster fails,     *)
(* create() returns failure after exactly 1 settle wait, the 30-unit wait  *)
(* after reboot; the 10-unit wait does not occur, and steps 4 and 5 are    *)
(* never attempted (neither narrated nor dispatched).                      *)
C3_OneWaitBeforeFailure ==
    CreateClusterFailed =>
        /\ ret = "False"
        /\ Durations(Waits) = <<30>>
        /\ Len(Dispatches) = 3
        /\ \A i \in 1..Len(StepLines) : StepLines[i].step <= 3

C3_Witness == CreateClusterFailed /\ ~dry_run

ClusterCreateAllSucceeded ==
    /\ InClusterCreate /\ pc = "done"
    /\ \A i \in 1..Len(Dispatches) : Dispatches[i].result = "True"

(* C4: when every step of Cluster.create() succeeds, create() returns      *)
(* success, the lines tagged [step 1] .. [step 5] are printed once each in *)
(* increasing order, and exactly three settle waits occur: 30, 10, 5, 45   *)
(* in total.                                                               *)
C4_ClusterCreateSuccess ==
    ClusterCreateAllSucceeded =>
        /\ ret = "True"
        /\ Tags(StepLines) = <<1, 2, 3, 4, 5>>
        /\ \A i \in 1..Len(StepLines) : ~StepLines[i].diag
        /\ Durations(Waits) = <<30, 10, 5>>
        /\ Sum(Durations(Waits)) = 45

C4_Witness == ClusterCreateAllSucceeded /\ ~dry_run /\ Len(Dispatches) = 6

RestoreFailed ==
    InVMCreate /\ Len(Dispatches) >= 1 /\ Dispatches[1].result = "False"

(* C5: in VM.create() the 40-unit wait happens exactly once, right after   *)
(* restore returns and before its result is checked, whatever the result;  *)
(* when restore fails create() returns failure only after that wait and    *)
(* neither configure_network nor configure_options is invoked.             *)
C5_WaitBeforeRestoreCheck ==
    InVMCreate =>
        /\ pc = "create_sleep40" => (Waits = <<>> /\ ret = "unset")
        /\ pc \in {"create_check_restore", "create_network", "create_options",
                   "create_snapshot", "create_reboot", "done"}
              => Durations(Waits) = <<40>>
        /\ Waits # <<>> =>
              \E i \in 2..Len(trace) :
                  /\ IsSleep(trace[i])
                  /\ IsGateway(trace[i - 1]) /\ trace[i - 1].name = "restore vm..."
        /\ pc = "create_check_restore" => IsSleep(trace[Len(trace)])
        /\ ret = "False" => Waits # <<>>
        /\ (RestoreFailed /\ pc = "done") => (ret = "False" /\ Len(Dispatches) = 1)

C5_Witness == RestoreFailed /\ pc = "done" /\ ~dry_run

FirstThreeSucceeded ==
    /\ InVMCreate
    /\ Len(Dispatches) >= 3
    /\ \A k \in 1..3 : Dispatches[k].result = "True"

(* C6: when restore, configure_network and configure_options all succeed,  *)
(* VM.create() attempts snapshot(snapname) and then reboot, each exactly   *)
(* once, and returns success whatever snapshot and reboot returned.        *)
C6_BestEffortTail ==
    FirstThreeSucceeded =>
        /\ pc \in {"create_snapshot", "create_reboot", "done"}
        /\ pc = "done" =>
              /\ Names(Dispatches) = VMCreateOrder
              /\ Dispatches[4].instrs = <<<<"qm snapshot", vm("vmid"), snapname>>>>
              /\ ret = "True"

C6_Witness ==
    /\ FirstThreeSucceeded /\ pc = "done"
    /\ Dispatches[4].result = "False" /\ Dispatches[5].result = "False"

(* C7: Cluster.destroy() attempts reset and then reboot, each exactly      *)
(* once; reboot is attempted even when reset returned failure.             *)
C7_DestroyNoShortCircuit ==
    (facade = "cluster" /\ op = "destroy") =>
        /\ pc \in {"destroy_reboot", "done"}
        /\ pc = "destroy_reboot" => Names(Dispatches) = <<"reset nodes...">>
        /\ pc = "done" => Names(Dispatches) = <<"reset nodes...", "reboot.yaml">>

C7_Witness ==
    /\ facade = "cluster" /\ op = "destroy" /\ pc = "done"
    /\ Dispatches[1].result = "False"

(* C8: Cluster.configure_nodes() triggers reboot() if and only if the      *)
(* configuration script succeeded on the member hosts: after a successful  *)
(* script exactly one reboot follows, after a failed one nothing is        *)
(* dispatched and configure_nodes returns failure.                         *)
C8_RebootIffConfigured ==
    (facade = "cluster" /\ op \in {"configure_nodes", "create"}) =>
        LET g == Dispatches
        IN  \A i \in 1..Len(g) :
                g[i].name = "configure nodes..." =>
                    /\ g[i].result = "True" =>
                          (Len(g) = i + 1 /\ g[i + 1].name = "reboot.yaml")
                    /\ g[i].result = "False" => (Len(g) = i /\ ret = "False")

C8_Witness ==
    /\ facade = "cluster" /\ op = "configure_nodes" /\ pc = "done"
    /\ Len(Dispatches) = 2 /\ ~dry_run

IsPciInstr(ins) == Len(ins) >= 3 /\ ins[3] = "-hostpci0"

IsOnBootInstr(ins) == ins[Len(ins)] = "--onboot 1"

(* C9: the Command built by VM.configure_options() holds the PCI           *)
(* passthrough instruction if and only if the configured device string is  *)
(* non-empty; the boot-on-startup instruction is always there, and comes   *)
(* after the PCI instruction when both are.                                *)
C9_PciIffDevice ==
    \A i \in 1..Len(Dispatches) :
        LET e == Dispatches[i]
        IN  e.name = "set VM options..." =>
                /\ (\E j \in 1..Len(e.instrs) : IsPciInstr(e.instrs[j])) <=> (vm("pci") # "")
                /\ Cardinality({j \in 1..Len(e.instrs) : IsOnBootInstr(e.instrs[j])}) = 1
                /\ IsOnBootInstr(e.instrs[Len(e.instrs)])
                /\ vm("pci") # "" =>
                      e.instrs = <<PciInstr(vm("vmid"), vm("pci")), OnBootInstr(vm("vmid"))>>
                /\ vm("pci") = "" => e.instrs = <<OnBootInstr(vm("vmid"))>>

C9_Witness ==
    /\ facade = "vm" /\ op = "configure_options" /\ pc = "done"
    /\ vm("pci") # ""

(* C10: with dry_run enabled no operation of either facade reaches the     *)
(* Gateway's remote-execution path; a full create() makes no remote call.  *)
C10_DryRunNeverExecutes ==
    arg_dry_run => \A i \in 1..Len(Dispatches) : Dispatches[i].path # "execute"

C10_Witness ==
    /\ arg_dry_run /\ InClusterCreate /\ pc = "done" /\ ret = "True"
    /\ Len(Dispatches) = 6

(* C11: every public operation of the Cluster facade and of the VM facade  *)
(* returns a boolean success/failure outcome to its caller.                *)
C11_EveryOperationReturnsBool ==
    pc = "done" => ret \in {"True", "False"}

(* C12 as stated: a run of VM.create() that returns failure failed at      *)
(* step 1 (restore) or step 2 (configure_network).                         *)
C12_FailsAtStep1Or2 ==
    (InVMCreate /\ pc = "done" /\ ret = "False") => Len(Dispatches) <= 2

(* C12 amended: a run of VM.create() that returns, returns success or      *)
(* failure; success only after step 3 (configure_options) passed, with     *)
(* snapshot and reboot attempted; failure at step 1 (restore), step 2      *)
(* (configure_network) or step 3 (configure_options), the failed step      *)
(* being the last one dispatched.                                          *)
C12_FailsAtStep1To3 ==
    (InVMCreate /\ pc = "done") =>
        LET g == Dispatches
        IN  /\ ret \in {"True", "False"}
            /\ ret = "True" =>
                  (Len(g) = 5 /\ \A k \in 1..3 : g[k].result = "True")
            /\ ret = "False" =>
                  /\ Len(g) \in 1..3
                  /\ g[Len(g)].result = "False"
                  /\ \A k \in 1..(Len(g) - 1) : g[k].result = "True"

C12_Witness ==
    /\ InVMCreate /\ pc = "done" /\ ret = "False"
    /\ Len(Dispatches) = 3

IsDiag(e) == e.kind = "print" /\ e.diag

IsStepDiag(e) == e.kind = "print" /\ e.diag /\ e.step > 0

IsNarration(e) == e.kind = "print" /\ ~e.diag /\ e.step > 0

(* The step of Cluster.create() that made the i-th Gateway call: the sixth *)
(* call is the reboot inside step 5.                                       *)
StepOf(i) == IF i = 6 THEN 5 ELSE i

(* The positions in the trace of the Gateway calls made by step k or later. *)
PosFromStep(k) ==
    {p \in 1..Len(trace) :
        /\ IsGateway(trace[p])
        /\ Cardinality({q \in 1..p : IsGateway(trace[q])}) >= k}

(* The line "[step k] ..." was printed before step k made its first call. *)
NarratedBefore(k) ==
    \E n \in 1..Len(trace) :
        /\ IsNarration(trace[n]) /\ trace[n].step = k
        /\ \A p \in PosFromStep(k) : n < p

(* C13 as stated: when step k of Cluster.create() returns failure, the     *)
(* run ends Failed(k): "[step k]" was narrated before the step, exactly    *)
(* one failure diagnostic is printed and it names step k, nothing is       *)
(* printed for a step j > k, and create() returns failure.                 *)
C13_OneDiagnostic ==
    InClusterCreate =>
        \A i \in 1..Len(Dispatches) :
            Dispatches[i].result = "False" =>
                /\ ret = "False"
                /\ NarratedBefore(StepOf(i))
                /\ Len(SelectSeq(trace, IsDiag)) = 1
                /\ Tags(SelectSeq(trace, IsDiag)) = <<StepOf(i)>>
                /\ \A j \in 1..Len(StepLines) : StepLines[j].step <= StepOf(i)

(* C13 amended: when step k (1..5) of Cluster.create() returns failure,    *)
(* the run ends Failed(k): "[step k]" was narrated before the step was     *)
(* attempted, exactly one diagnostic tagged with a step number is printed, *)
(* it names step k and is the last line, nothing is printed for a step     *)
(* j > k, and create() returns failure.  For k <= 4 that is the only       *)
(* failure diagnostic; at step 5 a failed configuration script makes       *)
(* configure_nodes print its own untagged diagnostic first.                *)
C13_FailedAtStep ==
    InClusterCreate =>
        \A i \in 1..Len(Dispatches) :
            Dispatches[i].result = "False" =>
                LET k == StepOf(i)
                IN  /\ i = Len(Dispatches) /\ pc = "done" /\ ret = "False"
                    /\ Tags(SelectSeq(trace, IsNarration)) = [j \in 1..k |-> j]
                    /\ NarratedBefore(k)
                    /\ Tags(SelectSeq(trace, IsStepDiag)) = <<k>>
                    /\ IsStepDiag(trace[Len(trace)])
                    /\ Len(SelectSeq(trace, IsDiag)) = IF i = 5 THEN 2 ELSE 1

C13_Witness ==
    /\ InClusterCreate /\ pc = "done"
    /\ Len(Dispatches) = 5 /\ Dispatches[5].result = "False"

(* The Gateway calls and the settle waits of the run, in the order they    *)
(* happened: a call by its name, a wait by its duration.                   *)
WaitName(n) ==
    CASE n = 5 -> "sleep(5)"
      [] n = 10 -> "sleep(10)"
      [] n = 30 -> "sleep(30)"
      [] n = 40 -> "sleep(40)"
      [] OTHER -> "sleep(?)"

IsFlowEvent(e) == IsGateway(e) \/ IsSleep(e)

FlowItem(e) == IF IsGateway(e) THEN e.name ELSE WaitName(e.n)

Flow ==
    LET f == SelectSeq(trace, IsFlowEvent)
    IN  [i \in 1..Len(f) |-> FlowItem(f[i])]

ClusterCreateFlow ==
    <<"reset nodes...", "reboot.yaml", "sleep(30)", "create cluster...", "sleep(10)",
      "add_node.yaml", "sleep(5)", "configure nodes...", "reboot.yaml">>

VMCreateFlow ==
    <<"restore vm...", "sleep(40)", "configure_network.yaml", "set VM options...",
      "snapshot vm v1...", "reboot vm v1...">>

(* C14: in every run of Cluster.create() each settle wait lies between its *)
(* step and the next one: the 30-unit wait after reboot and before         *)
(* create_cluster, the 10-unit wait after create_cluster and before        *)
(* create_nodes, the 5-unit wait after create_nodes and before             *)
(* configure_nodes; there is no wait before reset, between reset and       *)
(* reboot, or after configure_nodes.                                       *)
C14_WaitsBetweenSteps ==
    InClusterCreate => IsPrefix(Flow, ClusterCreateFlow)

C14_Witness ==
    InClusterCreate /\ pc = "done" /\ ~dry_run /\ Len(Flow) = 9

(* C15: in every run of Cluster.create(), create_cluster is the only step  *)
(* dispatched to the master host (attribute host) and it goes nowhere      *)
(* else; reset, both reboots, create_nodes and the node configuration      *)
(* script go to the cluster's group selector, never to a single host.      *)
C15_ClusterTargets ==
    InClusterCreate =>
        \A i \in 1..Len(Dispatches) :
            LET e == Dispatches[i]
            IN  IF e.name = "create cluster..."
                THEN /\ HasCluster("host")
                     /\ e.target = cluster("host")
                     /\ e.target # cluster_name
                ELSE /\ e.target = cluster_name
                     /\ HasCluster("host") => e.target # cluster("host")

C15_Witness ==
    InClusterCreate /\ pc = "done" /\ ~dry_run /\ Len(Dispatches) = 6

(* C16: in every run of VM.create(), restore, configure_options, snapshot  *)
(* and reboot are dispatched to the VM's hypervisor host (attribute host), *)
(* configure_network to the distinct init host, and no step to the VM's    *)
(* own identity (vm_name).                                                 *)
C16_VMTargets ==
    InVMCreate =>
        \A i \in 1..Len(Dispatches) :
            LET e == Dispatches[i]
            IN  /\ e.target # vm_name
                /\ IF e.name = "configure_network.yaml"
                   THEN /\ e.target = vm_init_name
                        /\ HasVm({"host"}) => e.target # vm("host")
                   ELSE HasVm({"host"}) /\ e.target = vm("host")

C16_Witness ==
    InVMCreate /\ pc = "done" /\ ~dry_run /\ Len(Dispatches) = 5

(* How many Gateway calls of the run carry this name. *)
Count(name) == Cardinality({i \in 1..Len(Dispatches) : Dispatches[i].name = name})

(* C17: each step is attempted once: in a run of Cluster.create() reset,   *)
(* create cluster, add-node and the configuration script are dispatched at *)
(* most once and reboot at most twice; in a run of VM.create() restore,    *)
(* configure_network, configure_options, snapshot and reboot at most once; *)
(* a failed step is never dispatched again.                                *)
C17_SingleAttempt ==
    /\ InClusterCreate =>
          /\ \A n \in {"reset nodes...", "create cluster...", "add_node.yaml",
                       "configure nodes..."} : Count(n) <= 1
          /\ Count("reboot.yaml") <= 2
    /\ InVMCreate =>
          \A i \in 1..Len(VMCreateOrder) : Count(VMCreateOrder[i]) <= 1
    /\ op = "create" =>
          \A i \in 1..Len(Dispatches) : \A j \in (i + 1)..Len(Dispatches) :
              Dispatches[i].result = "False" => Dispatches[j].name # Dispatches[i].name

C17_Witness ==
    /\ InClusterCreate /\ pc = "done" /\ Count("reboot.yaml") = 2
    /\ Dispatches[6].result = "False"

(* C18: Cluster.create() returns success if and only if all six remote     *)
(* dispatches succeed: reset, reboot, create cluster, add-node, the        *)
(* configuration script and the final reboot inside configure_nodes; a     *)
(* failure of that final reboot makes create() return failure, reported    *)
(* as a failure of step 5.                                                 *)
C18_SuccessIffAllSix ==
    (InClusterCreate /\ pc = "done") =>
        LET g == Dispatches
        IN  /\ ret = "True" <=>
                  (Names(g) = ClusterCreateOrder /\ \A i \in 1..6 : g[i].result = "True")
            /\ (Len(g) = 6 /\ g[6].result = "False") =>
                  /\ ret = "False"
                  /\ IsStepDiag(trace[Len(trace)])
                  /\ trace[Len(trace)].step = 5

C18_Witness ==
    /\ InClusterCreate /\ pc = "done" /\ ret = "False"
    /\ Len(Dispatches) = 6 /\ \A i \in 1..5 : Dispatches[i].result = "True"

(* C19: a configuration lookup failure is a setup-time fatal error: when   *)
(* an attribute needed by a step of VM.create() or Cluster.create() is     *)
(* absent, the operation aborts before any remote step has been            *)
(* dispatched.                                                             *)
C19_AbortBeforeAnyDispatch ==
    (op = "create" /\ pc = "raised") => Dispatches = <<>>

(* C20: dry-run keeps the control flow and the settle waits: with dry_run  *)
(* enabled, a finished Cluster.create() or VM.create() made the same calls *)
(* and the same waits, in the same positions, printed the same step lines  *)
(* and returned the same result as a finished real run in which every      *)
(* step succeeded.                                                         *)
CreateFinishedWithoutFailure ==
    /\ op = "create" /\ pc = "done"
    /\ dry_run \/ \A i \in 1..Len(Dispatches) : Dispatches[i].result = "True"

C20_DryRunSameFlow ==
    CreateFinishedWithoutFailure =>
        /\ ret = "True"
        /\ facade = "cluster" =>
              (Flow = ClusterCreateFlow /\ Tags(StepLines) = <<1, 2, 3, 4, 5>>)
        /\ facade = "vm" => (Flow = VMCreateFlow /\ StepLines = <<>>)

C20_Witness ==
    CreateFinishedWithoutFailure /\ dry_run /\ facade = "cluster"

====
